---- MODULE Spec2Model ----
(***************************************************************************)
(* A model of the aalam ECS core: the EntityHandle codec, the EntityStore  *)
(* (generational slot allocator with an intrusive free list) and the       *)
(* SparseSet (paged sparse -> dense index).                                *)
(*                                                                         *)
(* JavaScript arrays are modelled as sequences read 0-based through        *)
(* ArrGet; a read outside the array or of a hole yields Undefined, and     *)
(* the bitwise operators turn Undefined (and Infinity) into 0, as ToInt32  *)
(* does.  All codecs of the model have indexBits + versionBits < 31, so    *)
(* no 32-bit sign wrap occurs in make / index / version.                   *)
(***************************************************************************)
EXTENDS Integers, Sequences, FiniteSets, TLC

VARIABLES
    handler,        \* the EntityHandle codec: [indexBits, versionBits]
    \* ---- EntityStore ----
    entities,       \* #entities
    append_index,   \* #append_index
    free_slot,      \* #free_slot
    cap,            \* #cap
    isTypedArray,   \* #isTypedArray
    resizable,      \* #resizable
    \* ---- EntityStore observation (not program state) ----
    esOp,           \* the last call: [name, arg, ok, ret]
    esCalls,        \* number of state-changing calls made so far
    live,           \* handles create() returned and remove() has not taken since
    removed,        \* handles remove() has accepted
    freed,          \* slots freed and not yet reused, most recent first
    recycle,        \* monitor of the run create^N ; remove^N ; create^N
    \* ---- SparseSet ----
    pageSize,       \* #pageSize
    sparse,         \* #sparse: page index -> (page offset -> dense index)
    dense,          \* #dense
    length,         \* #length
    typedArray,     \* #typedArray
    \* ---- SparseSet observation (not program state) ----
    ssOp,           \* the last call: [name, ret, threw]
    ssCalls,        \* number of state-changing calls made so far
    afterReset,     \* reset() has been called
    sinceReset,     \* entities add() has returned an index for since the last reset()
    \* ---- Registry ----
    components,     \* #components: component type -> ComponentStore
    \* ---- Registry observation (not program state) ----
    regOp,          \* the last Registry call other than create:
                    \* [name, threw, acted, alive]
    regCalls,       \* number of state-changing component calls made so far
    lastAdded,      \* the pairs <<entity, type>> whose most recent successful
                    \* add, remove, removeIfExist or removeAll was an add
    \* ---- Registry, continued ----
    regConfig       \* #config.componentOptions: [sizing, replace, resize]

esVars == <<entities, append_index, free_slot, cap, isTypedArray, resizable>>
esObs == <<esOp, esCalls, live, removed, freed, recycle>>
ssVars == <<pageSize, sparse, dense, length, typedArray>>
ssObs == <<ssOp, ssCalls, afterReset, sinceReset>>
regVars == <<components, regOp, regCalls, lastAdded, regConfig>>
vars == <<handler, esVars, esObs, ssVars, ssObs, regVars>>

(***************************************************************************)
(* Bounds of the model.                                                    *)
(***************************************************************************)
MaxIndexBits == 2
MaxVersionBits == 2
MaxCapacity == 4
MaxCalls == 9
MaxPoolSize == 2
MaxDense == 3
MaxSSCalls == 4
MaxRegCalls == 2
MaxRegEntityCalls == 5
MaxRegLive == 2

(***************************************************************************)
(* Program constants.                                                      *)
(***************************************************************************)
DEFAULT_ENTITY_VALUE == 0
IDX_SENTINEL == -1
Undefined == -2
TOMBSTONE == -1
FAILED_OPERATION == -1
SUCCESS_OPERATION == 0
Infinity == 1073741823
DEFAULT_DENSE_VAL == Infinity
MinPageSize == 128

(***************************************************************************)
(* JavaScript array primitives.                                            *)
(***************************************************************************)
ArrGet(a, i) == IF i >= 0 /\ i < Len(a) THEN a[i + 1] ELSE Undefined

\* a[i] = v on a typed array: a write outside the buffer is dropped.
TypedSet(a, i, v) == IF i >= 0 /\ i < Len(a) THEN [a EXCEPT ![i + 1] = v] ELSE a

\* a[i] = v on an Array: a write past the end lengthens it, leaving holes.
ArraySet(a, i, v) ==
    IF i < Len(a) THEN [a EXCEPT ![i + 1] = v]
    ELSE [k \in 1..(i + 1) |-> IF k <= Len(a) THEN a[k] ELSE IF k = i + 1 THEN v ELSE Undefined]

\* a.length = n; a.fill(v, start) with start the old length.
ArrayGrowFill(a, n, v) == [k \in 1..n |-> IF k <= Len(a) THEN a[k] ELSE v]

\* new TypedArray(n); newArr.set(a)
TypedGrow(a, n) == [k \in 1..n |-> IF k <= Len(a) THEN a[k] ELSE 0]

(***************************************************************************)
(* EntityHandleFactory, Number handler.  x & mask is x % 2^bits for every  *)
(* integer x (two's complement), x >>> bits is x \div 2^bits for x >= 0.   *)
(***************************************************************************)
indexMask == 2 ^ handler.indexBits - 1
versionMask == 2 ^ handler.versionBits - 1

\* ToInt32 / ToUint32 of a value that is no finite number is 0.
ToInt32(x) == IF x = Undefined \/ x = Infinity THEN 0 ELSE x

BitAnd(x, mask) == ToInt32(x) % (mask + 1)

hMake(index, version) ==
    BitAnd(index, indexMask) * 2 ^ handler.versionBits + BitAnd(version, versionMask)

hIndex(id) == BitAnd(ToInt32(id) \div 2 ^ handler.versionBits, indexMask)

hVersion(id) == BitAnd(id, versionMask)

INVALID_IDX == 2 ^ handler.indexBits - 1

Handles == 0..(2 ^ (handler.indexBits + handler.versionBits) - 1)

(***************************************************************************)
(* EntityStore                                                             *)
(***************************************************************************)
EntSet(a, i, v) == IF isTypedArray THEN TypedSet(a, i, v) ELSE ArraySet(a, i, v)

isAlive(entity) ==
    /\ hIndex(entity) < append_index
    /\ ArrGet(entities, hIndex(entity)) = entity

NoOp == [name |-> "none", arg |-> 0, ok |-> TRUE, ret |-> 0]

RecycleInit == [phase |-> "create", n |-> 0, m |-> 0, first |-> {}, got |-> {}]

InitES ==
    /\ handler \in [indexBits : 1..MaxIndexBits, versionBits : 1..MaxVersionBits]
    /\ cap \in 1..MaxCapacity
    /\ isTypedArray \in BOOLEAN
    /\ resizable \in BOOLEAN
    /\ entities = [k \in 1..cap |-> DEFAULT_ENTITY_VALUE]
    /\ append_index = 0
    /\ free_slot = IDX_SENTINEL
    /\ esOp = NoOp
    /\ esCalls = 0
    /\ live = {}
    /\ removed = {}
    /\ freed = <<>>
    /\ recycle = RecycleInit

\* The monitor of create^N ; remove^N ; create^N on a fresh store.
RecycleOnCreate(r, e, liveBefore) ==
    CASE r.phase = "create" -> [r EXCEPT !.n = r.n + 1, !.first = r.first \cup {e}]
      [] r.phase = "remove" /\ liveBefore = {} ->
            [r EXCEPT !.phase = IF r.n = 1 THEN "done" ELSE "again", !.m = 1, !.got = {e}]
      [] r.phase = "again" ->
            [r EXCEPT !.phase = IF r.m + 1 = r.n THEN "done" ELSE "again",
                      !.m = r.m + 1, !.got = r.got \cup {e}]
      [] OTHER -> [r EXCEPT !.phase = "off"]

RecycleOnRemove(r) ==
    CASE r.phase = "create" /\ r.n >= 1 -> [r EXCEPT !.phase = "remove"]
      [] r.phase = "remove" -> r
      [] OTHER -> [r EXCEPT !.phase = "off"]

\* create(), the branch that pops the free list (EntityStore.js 108-119)
CreateFromFreeSlot ==
    /\ free_slot # IDX_SENTINEL
    /\ esCalls < MaxCalls
    /\ LET ent == ArrGet(entities, free_slot)
           version == hVersion(ent)
           next_free_idx == hIndex(ent)
           newEnt == hMake(free_slot, version)
       IN /\ entities' = EntSet(entities, free_slot, newEnt)
          /\ free_slot' = next_free_idx
          /\ esOp' = [name |-> "create", arg |-> 0, ok |-> TRUE, ret |-> newEnt]
          /\ live' = live \cup {newEnt}
          /\ recycle' = RecycleOnCreate(recycle, newEnt, live)
    /\ freed' = IF freed = <<>> THEN freed ELSE Tail(freed)
    /\ esCalls' = esCalls + 1
    /\ UNCHANGED <<handler, append_index, cap, isTypedArray, resizable, removed>>
    /\ UNCHANGED <<ssVars, ssObs, regVars>>

\* create(), the two throws (EntityStore.js 121, 124)
CreateThrows ==
    /\ free_slot = IDX_SENTINEL
    /\ \/ append_index = INVALID_IDX
       \/ append_index = cap - 1 /\ ~resizable
    /\ esOp' = [name |-> "create", arg |-> 0, ok |-> FALSE, ret |-> 0]
    /\ UNCHANGED <<handler, esVars, esCalls, live, removed, freed, recycle>>
    /\ UNCHANGED <<ssVars, ssObs, regVars>>

\* create(), the append branch with its growth (EntityStore.js 123-150)
CreateAppend ==
    /\ free_slot = IDX_SENTINEL
    /\ append_index # INVALID_IDX
    /\ ~(append_index = cap - 1 /\ ~resizable)
    /\ esCalls < MaxCalls
    /\ LET grow == append_index = cap - 1
           grown == IF ~grow THEN entities
                    ELSE IF isTypedArray THEN TypedGrow(entities, cap * 2)
                    ELSE ArrayGrowFill(entities, cap * 2, INVALID_IDX)
           entity == hMake(append_index, 0)
       IN /\ cap' = IF grow THEN cap * 2 ELSE cap
          /\ entities' = EntSet(grown, append_index, entity)
          /\ esOp' = [name |-> "create", arg |-> 0, ok |-> TRUE, ret |-> entity]
          /\ live' = live \cup {entity}
          /\ recycle' = RecycleOnCreate(recycle, entity, live)
    /\ append_index' = append_index + 1
    /\ esCalls' = esCalls + 1
    /\ UNCHANGED <<handler, free_slot, isTypedArray, resizable, removed, freed>>
    /\ UNCHANGED <<ssVars, ssObs, regVars>>

\* Remove, writing the freed cell with the version left as it was.
RemoveKeepsVersion(entity) ==
    /\ isAlive(entity)
    /\ esCalls < MaxCalls
    /\ LET index == hIndex(entity)
           version == hVersion(entity)
       IN /\ entities' = EntSet(entities, index, hMake(free_slot, version))
          /\ free_slot' = index
          /\ freed' = <<index>> \o freed
    /\ esOp' = [name |-> "remove", arg |-> entity, ok |-> TRUE, ret |-> 0]
    /\ live' = live \ {entity}
    /\ removed' = removed \cup {entity}
    /\ recycle' = RecycleOnRemove(recycle)
    /\ esCalls' = esCalls + 1
    /\ UNCHANGED <<handler, append_index, cap, isTypedArray, resizable>>
    /\ UNCHANGED <<ssVars, ssObs>>

\* remove(entity) of a live handle (EntityStore.js 169-177)
Remove(entity) ==
    /\ isAlive(entity)
    /\ esCalls < MaxCalls
    /\ LET index == hIndex(entity)
           version == hVersion(entity)
       IN /\ entities' = EntSet(entities, index, hMake(free_slot, version + 1))
          /\ free_slot' = index
          /\ freed' = <<index>> \o freed
    /\ esOp' = [name |-> "remove", arg |-> entity, ok |-> TRUE, ret |-> 0]
    /\ live' = live \ {entity}
    /\ removed' = removed \cup {entity}
    /\ recycle' = RecycleOnRemove(recycle)
    /\ esCalls' = esCalls + 1
    /\ UNCHANGED <<handler, append_index, cap, isTypedArray, resizable>>
    /\ UNCHANGED <<ssVars, ssObs>>

\* remove(entity) of a handle that is not alive: throws (EntityStore.js 170)
RemoveThrows(entity) ==
    /\ ~isAlive(entity)
    /\ esOp' = [name |-> "remove", arg |-> 0, ok |-> FALSE, ret |-> 0]
    /\ UNCHANGED <<handler, esVars, esCalls, live, removed, freed, recycle>>
    /\ UNCHANGED <<ssVars, ssObs, regVars>>

NextES ==
    \/ CreateFromFreeSlot
    \/ CreateAppend
    \/ CreateThrows
    \/ \E e \in Handles : Remove(e) /\ UNCHANGED regVars
    \/ \E e \in Handles : RemoveThrows(e)

\* The sparse set is not part of an EntityStore: it stays as constructed.
IdleSS ==
    /\ pageSize = 4096
    /\ sparse = <<>>
    /\ dense = <<>>
    /\ length = 0
    /\ typedArray = TRUE
    /\ ssOp = [name |-> "none", ret |-> 0, threw |-> FALSE]
    /\ ssCalls = 0
    /\ afterReset = FALSE
    /\ sinceReset = {}

\* No Registry is part of it either.
NoRegOp == [name |-> "none", threw |-> FALSE, acted |-> FALSE, alive |-> FALSE]

\* DefaultRegistryOptions.componentOptions (Registry.js 34-40): the sizing of
\* a store (typedArray, poolSize, pageSize) under one name, and the two flags.
DefaultConfig == "default"
DefaultComponentOptions == [sizing |-> DefaultConfig, replace |-> TRUE, resize |-> TRUE]

IdleReg ==
    /\ components = <<>>
    /\ regOp = NoRegOp
    /\ regCalls = 0
    /\ lastAdded = {}
    /\ regConfig = DefaultComponentOptions

Init == InitES /\ IdleSS /\ IdleReg
Next == NextES
Spec == Init /\ [][Next]_vars

\* Only the runs create^N ; remove^N ; create^N, for the recycling property.
NextRecycle ==
    /\ \/ CreateFromFreeSlot
       \/ CreateAppend
       \/ \E e \in Handles : Remove(e) /\ UNCHANGED regVars
    /\ recycle'.phase # "off"

SpecRecycle == Init /\ [][NextRecycle]_vars

(***************************************************************************)
(* SparseSet                                                               *)
(***************************************************************************)
\* The entity ids the calls are made with: two offsets of the first page of
\* the smallest page size and one of the second, and a second generation of
\* slot 0.
SSIndices == {0, 1, MinPageSize}
SSEntities == {hMake(i, 0) : i \in SSIndices} \cup {hMake(0, 1)}

pageIndex(entityID) == hIndex(entityID) \div pageSize
pageOffset(entityID) == BitAnd(hIndex(entityID), pageSize - 1)

capacity == Len(dense)

\* sp[pageIndex(e)][pageOffset(e)], Undefined when the cell was never written;
\* only called when the page exists.
PageCell(sp, e) ==
    IF pageOffset(e) \in DOMAIN sp[pageIndex(e)]
    THEN sp[pageIndex(e)][pageOffset(e)] ELSE Undefined

\* page[pageOffset(e)] = v on an existing page
SetCell(sp, e, v) ==
    [sp EXCEPT ![pageIndex(e)] = (pageOffset(e) :> v) @@ @]

getOrCreatePage(sp, p) == IF p \in DOMAIN sp THEN sp ELSE (p :> <<>>) @@ sp

\* contains / index evaluated on a given [dense, length, sparse]
containsIn(st, entityID) ==
    /\ pageIndex(entityID) \in DOMAIN st.sparse
    /\ LET denseIdx == PageCell(st.sparse, entityID)
       IN denseIdx # Undefined /\ denseIdx # TOMBSTONE /\ denseIdx < st.length

indexIn(st, entityID) ==
    IF pageIndex(entityID) \notin DOMAIN st.sparse THEN FAILED_OPERATION
    ELSE LET denseIdx == PageCell(st.sparse, entityID)
         IN IF denseIdx # Undefined /\ denseIdx # TOMBSTONE /\ denseIdx < st.length
            THEN denseIdx ELSE FAILED_OPERATION

ssNow == [dense |-> dense, length |-> length, sparse |-> sparse]

contains(entityID) == containsIn(ssNow, entityID)
index(entityID) == indexIn(ssNow, entityID)

\* resize(capacity): FAILED_OPERATION leaves the array alone
resizeStatus(d, newCap) == IF newCap <= Len(d) THEN FAILED_OPERATION ELSE SUCCESS_OPERATION

resizeDense(d, newCap) ==
    IF newCap <= Len(d) THEN d
    ELSE IF typedArray THEN TypedGrow(d, newCap)
    ELSE ArrayGrowFill(d, newCap, DEFAULT_DENSE_VAL)

\* addResult without the early return for a contained entity.
addResultAlways(entityID, resize) ==
    LET same(ret) == [ret |-> ret, threw |-> FALSE,
                      dense |-> dense, sparse |-> sparse, length |-> length]
        denseIndex == length
        needs == denseIndex >= capacity
        grown == IF needs THEN resizeDense(dense, denseIndex * 2) ELSE dense
        page == getOrCreatePage(sparse, pageIndex(entityID))
    IN IF needs /\ ~resize THEN same(FAILED_OPERATION)
       ELSE IF needs /\ resizeStatus(dense, denseIndex * 2) = FAILED_OPERATION
            THEN same(FAILED_OPERATION)
       ELSE [ret |-> denseIndex, threw |-> FALSE,
             dense |-> [grown EXCEPT ![denseIndex + 1] = entityID],
             sparse |-> SetCell(page, entityID, denseIndex),
             length |-> length + 1]

\* addResult growing the dense array whatever the resize flag says.
addResultIgnoresFlag(entityID, resize) ==
    LET same(ret) == [ret |-> ret, threw |-> FALSE,
                      dense |-> dense, sparse |-> sparse, length |-> length]
        denseIndex == length
        needs == denseIndex >= capacity
        grown == IF needs THEN resizeDense(dense, denseIndex * 2) ELSE dense
        page == getOrCreatePage(sparse, pageIndex(entityID))
    IN IF contains(entityID) THEN same(index(entityID))
       ELSE IF needs /\ resizeStatus(dense, denseIndex * 2) = FAILED_OPERATION
            THEN same(FAILED_OPERATION)
       ELSE [ret |-> denseIndex, threw |-> FALSE,
             dense |-> [grown EXCEPT ![denseIndex + 1] = entityID],
             sparse |-> SetCell(page, entityID, denseIndex),
             length |-> length + 1]

\* addResult fetching the page before the capacity test, so that a failed
\* add leaves the page behind.
addResultEagerPage(entityID, resize) ==
    LET page == getOrCreatePage(sparse, pageIndex(entityID))
        same(ret) == [ret |-> ret, threw |-> FALSE,
                      dense |-> dense, sparse |-> sparse, length |-> length]
        failed == [ret |-> FAILED_OPERATION, threw |-> FALSE,
                   dense |-> dense, sparse |-> page, length |-> length]
        denseIndex == length
        needs == denseIndex >= capacity
        grown == IF needs THEN resizeDense(dense, denseIndex * 2) ELSE dense
    IN IF contains(entityID) THEN same(index(entityID))
       ELSE IF needs /\ ~resize THEN failed
       ELSE IF needs /\ resizeStatus(dense, denseIndex * 2) = FAILED_OPERATION
            THEN failed
       ELSE [ret |-> denseIndex, threw |-> FALSE,
             dense |-> [grown EXCEPT ![denseIndex + 1] = entityID],
             sparse |-> SetCell(page, entityID, denseIndex),
             length |-> length + 1]

\* add(entityID, resize): [ret, dense, sparse, length]
addResult(entityID, resize) ==
    LET same(ret) == [ret |-> ret, threw |-> FALSE,
                      dense |-> dense, sparse |-> sparse, length |-> length]
        denseIndex == length
        needs == denseIndex >= capacity
        grown == IF needs THEN resizeDense(dense, denseIndex * 2) ELSE dense
        page == getOrCreatePage(sparse, pageIndex(entityID))
    IN IF contains(entityID) THEN same(index(entityID))
       ELSE IF needs /\ ~resize THEN same(FAILED_OPERATION)
       ELSE IF needs /\ resizeStatus(dense, denseIndex * 2) = FAILED_OPERATION
            THEN same(FAILED_OPERATION)
       ELSE [ret |-> denseIndex, threw |-> FALSE,
             dense |-> [grown EXCEPT ![denseIndex + 1] = entityID],
             sparse |-> SetCell(page, entityID, denseIndex),
             length |-> length + 1]

\* this.#dense[i] = v
EntSetDense(d, i, v) == IF typedArray THEN TypedSet(d, i, v) ELSE ArraySet(d, i, v)

\* removeResult, leaving length as it was.
removeResultKeepsLength(entityID) ==
    LET fail == [ret |-> FAILED_OPERATION, threw |-> FALSE,
                 dense |-> dense, sparse |-> sparse, length |-> length]
        denseIdx == PageCell(sparse, entityID)
        lastDenseIdx == length - 1
        lastDenseEntity == ArrGet(dense, lastDenseIdx)
        moved == denseIdx # lastDenseIdx
        dense1 == IF moved THEN EntSetDense(dense, denseIdx, lastDenseEntity) ELSE dense
        sparse1 == IF moved THEN SetCell(sparse, lastDenseEntity, denseIdx) ELSE sparse
    IN IF length = 0 THEN fail
       ELSE IF pageIndex(entityID) \notin DOMAIN sparse THEN fail
       ELSE IF denseIdx = Undefined \/ denseIdx = TOMBSTONE THEN fail
       ELSE IF moved /\ pageIndex(lastDenseEntity) \notin DOMAIN sparse
            THEN [fail EXCEPT !.threw = TRUE, !.dense = dense1]
       ELSE [ret |-> SUCCESS_OPERATION, threw |-> FALSE,
             dense |-> dense1,
             sparse |-> SetCell(sparse1, entityID, TOMBSTONE),
             length |-> length]

\* removeResult, leaving the cell of the moved last entity as it was.
removeResultStaleCell(entityID) ==
    LET fail == [ret |-> FAILED_OPERATION, threw |-> FALSE,
                 dense |-> dense, sparse |-> sparse, length |-> length]
        denseIdx == PageCell(sparse, entityID)
        lastDenseIdx == length - 1
        lastDenseEntity == ArrGet(dense, lastDenseIdx)
        moved == denseIdx # lastDenseIdx
        dense1 == IF moved THEN EntSetDense(dense, denseIdx, lastDenseEntity) ELSE dense
    IN IF length = 0 THEN fail
       ELSE IF pageIndex(entityID) \notin DOMAIN sparse THEN fail
       ELSE IF denseIdx = Undefined \/ denseIdx = TOMBSTONE THEN fail
       ELSE [ret |-> SUCCESS_OPERATION, threw |-> FALSE,
             dense |-> dense1,
             sparse |-> SetCell(sparse, entityID, TOMBSTONE),
             length |-> length - 1]

\* remove(entityID): [ret, threw, dense, sparse, length].  Writing the cell of
\* the last dense entity throws a TypeError when that entity has no page.
removeResult(entityID) ==
    LET fail == [ret |-> FAILED_OPERATION, threw |-> FALSE,
                 dense |-> dense, sparse |-> sparse, length |-> length]
        denseIdx == PageCell(sparse, entityID)
        lastDenseIdx == length - 1
        lastDenseEntity == ArrGet(dense, lastDenseIdx)
        moved == denseIdx # lastDenseIdx
        dense1 == IF moved THEN EntSetDense(dense, denseIdx, lastDenseEntity) ELSE dense
        sparse1 == IF moved THEN SetCell(sparse, lastDenseEntity, denseIdx) ELSE sparse
    IN IF length = 0 THEN fail
       ELSE IF pageIndex(entityID) \notin DOMAIN sparse THEN fail
       ELSE IF denseIdx = Undefined \/ denseIdx = TOMBSTONE THEN fail
       ELSE IF moved /\ pageIndex(lastDenseEntity) \notin DOMAIN sparse
            THEN [fail EXCEPT !.threw = TRUE, !.dense = dense1]
       ELSE [ret |-> SUCCESS_OPERATION, threw |-> FALSE,
             dense |-> dense1,
             sparse |-> SetCell(sparse1, entityID, TOMBSTONE),
             length |-> length - 1]

\* swapResult writing the cell of ent1 only.
swapResultOneCell(ent1, ent2) ==
    LET fail == [ret |-> FAILED_OPERATION, threw |-> FALSE,
                 dense |-> dense, sparse |-> sparse, length |-> length]
        denseIdx1 == PageCell(sparse, ent1)
        denseIdx2 == PageCell(sparse, ent2)
        temp == ArrGet(dense, denseIdx1)
        dense1 == EntSetDense(dense, denseIdx1, ArrGet(dense, denseIdx2))
        dense2 == EntSetDense(dense1, denseIdx2, temp)
    IN IF length = 0 \/ ent1 = ent2 THEN fail
       ELSE IF pageIndex(ent1) \notin DOMAIN sparse THEN fail
       ELSE IF pageIndex(ent2) \notin DOMAIN sparse THEN fail
       ELSE IF denseIdx1 = Undefined \/ denseIdx1 = TOMBSTONE THEN fail
       ELSE IF denseIdx2 = Undefined \/ denseIdx2 = TOMBSTONE THEN fail
       ELSE IF denseIdx1 < 0 \/ denseIdx1 >= length \/ denseIdx2 < 0 \/ denseIdx2 >= length
            THEN fail
       ELSE [ret |-> SUCCESS_OPERATION, threw |-> FALSE,
             dense |-> dense2,
             sparse |-> SetCell(sparse, ent1, denseIdx2),
             length |-> length]

\* swap(ent1, ent2): [ret, threw, dense, sparse, length]
swapResult(ent1, ent2) ==
    LET fail == [ret |-> FAILED_OPERATION, threw |-> FALSE,
                 dense |-> dense, sparse |-> sparse, length |-> length]
        denseIdx1 == PageCell(sparse, ent1)
        denseIdx2 == PageCell(sparse, ent2)
        temp == ArrGet(dense, denseIdx1)
        dense1 == EntSetDense(dense, denseIdx1, ArrGet(dense, denseIdx2))
        dense2 == EntSetDense(dense1, denseIdx2, temp)
    IN IF length = 0 \/ ent1 = ent2 THEN fail
       ELSE IF pageIndex(ent1) \notin DOMAIN sparse THEN fail
       ELSE IF pageIndex(ent2) \notin DOMAIN sparse THEN fail
       ELSE IF denseIdx1 = Undefined \/ denseIdx1 = TOMBSTONE THEN fail
       ELSE IF denseIdx2 = Undefined \/ denseIdx2 = TOMBSTONE THEN fail
       ELSE IF denseIdx1 < 0 \/ denseIdx1 >= length \/ denseIdx2 < 0 \/ denseIdx2 >= length
            THEN fail
       ELSE [ret |-> SUCCESS_OPERATION, threw |-> FALSE,
             dense |-> dense2,
             sparse |-> SetCell(SetCell(sparse, ent1, denseIdx2), ent2, denseIdx1),
             length |-> length]

\* The comparators sort() is called with: (a, b) => a - b and (a, b) => b - a.
\* Infinity - Infinity is NaN, which sort() takes as "equal".
Comparators == {"ascending", "descending"}
Before(cmp, a, b) == IF cmp = "ascending" THEN a < b ELSE b < a

\* Array.prototype.sort / TypedArray.prototype.sort of the whole array under a
\* total order: position k holds the value with fewer than k values before it
\* and at least k values before or equal to it.
SortArray(d, cmp) ==
    [k \in 1..Len(d) |->
        CHOOSE x \in {d[i] : i \in 1..Len(d)} :
            /\ Cardinality({i \in 1..Len(d) : Before(cmp, d[i], x)}) < k
            /\ k <= Cardinality({i \in 1..Len(d) : Before(cmp, d[i], x) \/ d[i] = x})]

\* The loop of sort() from position i: [sparse, threw].  The write into the
\* page of dense[i] throws a TypeError when that page does not exist.
RECURSIVE rebuildSparse(_, _, _)
rebuildSparse(sp, d, i) ==
    IF i >= length THEN [sparse |-> sp, threw |-> FALSE]
    ELSE IF pageIndex(ArrGet(d, i)) \notin DOMAIN sp THEN [sparse |-> sp, threw |-> TRUE]
    ELSE rebuildSparse(SetCell(sp, ArrGet(d, i), i), d, i + 1)

\* sort(comparatorFunc): [ret, threw, dense, sparse, length]
sortResult(cmp) ==
    LET sorted == SortArray(dense, cmp)
        rebuilt == rebuildSparse(sparse, sorted, 0)
    IN [ret |-> IF rebuilt.threw THEN FAILED_OPERATION ELSE SUCCESS_OPERATION,
        threw |-> rebuilt.threw,
        dense |-> sorted, sparse |-> rebuilt.sparse, length |-> length]

\* The entity store is not part of a SparseSet: it stays as constructed.
IdleES ==
    /\ entities = <<>>
    /\ append_index = 0
    /\ free_slot = IDX_SENTINEL
    /\ cap = 0
    /\ isTypedArray = TRUE
    /\ resizable = TRUE
    /\ esOp = NoOp
    /\ esCalls = 0
    /\ live = {}
    /\ removed = {}
    /\ freed = <<>>
    /\ recycle = RecycleInit

EntityHandleMedium == [indexBits |-> 20, versionBits |-> 12]

\* new SparseSet(config) (SparseSet.js 64-77)
InitSS ==
    /\ handler = EntityHandleMedium
    /\ pageSize \in {MinPageSize, 2 * MinPageSize}
    /\ typedArray \in BOOLEAN
    /\ \E poolSize \in 0..MaxPoolSize :
          dense = [k \in 1..poolSize |-> IF typedArray THEN 0 ELSE DEFAULT_DENSE_VAL]
    /\ sparse = <<>>
    /\ length = 0
    /\ ssOp = [name |-> "none", ret |-> 0, threw |-> FALSE]
    /\ ssCalls = 0
    /\ afterReset = FALSE
    /\ sinceReset = {}

\* A call with its outcome r: the program state becomes r's, and the call is
\* recorded.
Apply(name, r) ==
    /\ dense' = r.dense
    /\ sparse' = r.sparse
    /\ length' = r.length
    /\ ssOp' = [name |-> name, ret |-> r.ret, threw |-> r.threw]
    /\ LET changed == <<r.dense, r.sparse, r.length>> # <<dense, sparse, length>>
       IN /\ changed => ssCalls < MaxSSCalls
          /\ ssCalls' = IF changed THEN ssCalls + 1 ELSE ssCalls
    /\ UNCHANGED <<handler, pageSize, typedArray>>
    /\ UNCHANGED <<esVars, esObs, regVars>>

Add(entityID, resize) ==
    LET r == addResult(entityID, resize)
    IN /\ Len(r.dense) <= MaxDense
       /\ Apply("add", r)
       /\ sinceReset' = IF r.ret # FAILED_OPERATION
                        THEN sinceReset \cup {entityID} ELSE sinceReset
       /\ UNCHANGED afterReset

SSRemove(entityID) ==
    /\ LET r == removeResult(entityID) IN Apply("remove", r)
    /\ UNCHANGED <<afterReset, sinceReset>>

Swap(ent1, ent2) ==
    /\ LET r == swapResult(ent1, ent2) IN Apply("swap", r)
    /\ UNCHANGED <<afterReset, sinceReset>>

Sort(cmp) ==
    /\ LET r == sortResult(cmp) IN Apply("sort", r)
    /\ UNCHANGED <<afterReset, sinceReset>>

\* resize(capacity) (SparseSet.js 138-156)
Resize(newCap) ==
    /\ Apply("resize",
             [ret |-> resizeStatus(dense, newCap), threw |-> FALSE,
              dense |-> resizeDense(dense, newCap), sparse |-> sparse, length |-> length])
    /\ UNCHANGED <<afterReset, sinceReset>>

\* reset() (SparseSet.js 121-123)
Reset ==
    /\ Apply("reset",
             [ret |-> 0, threw |-> FALSE, dense |-> dense, sparse |-> sparse, length |-> 0])
    /\ afterReset' = TRUE
    /\ sinceReset' = {}

\* clear() (SparseSet.js 128-131)
Clear ==
    /\ Apply("clear",
             [ret |-> 0, threw |-> FALSE, dense |-> dense, sparse |-> <<>>, length |-> 0])
    /\ UNCHANGED <<afterReset, sinceReset>>

NextSS ==
    \/ \E e \in SSEntities, resize \in BOOLEAN : Add(e, resize)
    \/ \E e \in SSEntities : SSRemove(e)
    \/ \E a, b \in SSEntities : Swap(a, b)
    \/ \E cmp \in Comparators : Sort(cmp)
    \/ \E newCap \in 0..MaxDense : Resize(newCap)
    \/ Reset
    \/ Clear

\* Only add, remove, swap and resize.
NextPlain ==
    \/ \E e \in SSEntities, resize \in BOOLEAN : Add(e, resize)
    \/ \E e \in SSEntities : SSRemove(e)
    \/ \E a, b \in SSEntities : Swap(a, b)
    \/ \E newCap \in 0..MaxDense : Resize(newCap)

InitSparseSet == InitSS /\ IdleES /\ IdleReg
SpecSS == InitSparseSet /\ [][NextSS]_vars
SpecSSPlain == InitSparseSet /\ [][NextPlain]_vars

(***************************************************************************)
(* ComponentStore.  Its source file is not part of the repository          *)
(* snapshot; it is modelled from the design document (4.4): a sparse set   *)
(* of entities with a parallel payload array.  The sparse set finds an     *)
(* entity by the slot index of its id (SparseSet.js 189-216), so the store *)
(* is kept as the packed entity list dense[0..length) and looked up by     *)
(* slot.  The dense array is taken to be large enough for every add.       *)
(***************************************************************************)
ComponentStandard == 1
ComponentEmpty == 2
Kinds == {ComponentStandard, ComponentEmpty}

\* The sizing configurations a store is created under: the default component
\* options and one other.
Configs == {DefaultConfig, "custom"}

\* new ComponentStore(comp, CType, config)
newStore(CType, config) ==
    [kind |-> CType, config |-> config, ents |-> <<>>, comps |-> <<>>]

\* index(e): the 0-based dense position of the entity of e's slot, or -1
csIndex(st, e) ==
    IF \E i \in 1..Len(st.ents) : hIndex(st.ents[i]) = hIndex(e)
    THEN (CHOOSE i \in 1..Len(st.ents) : hIndex(st.ents[i]) = hIndex(e)) - 1
    ELSE FAILED_OPERATION

csContains(st, e) == csIndex(st, e) # FAILED_OPERATION
csLen(st) == Len(st.ents)

\* add(e, args, replace, autoResize): [ret, store]
csAdd(st, e, args, replace) ==
    LET i == csIndex(st, e)
    IN IF i # FAILED_OPERATION
       THEN [ret |-> i,
             store |-> IF st.kind = ComponentStandard /\ replace
                       THEN [st EXCEPT !.comps[i + 1] = args] ELSE st]
       ELSE [ret |-> Len(st.ents),
             store |-> [st EXCEPT !.ents = Append(@, e),
                                  !.comps = IF st.kind = ComponentStandard
                                            THEN Append(@, args) ELSE @]]

\* The sequence q with position i overwritten by the last element, which is
\* then dropped.
SwapRemove(q, i) == [k \in 1..(Len(q) - 1) |-> IF k = i THEN q[Len(q)] ELSE q[k]]

\* remove(e): [ret, store]
csRemove(st, e) ==
    LET i == csIndex(st, e)
    IN IF i = FAILED_OPERATION THEN [ret |-> FAILED_OPERATION, store |-> st]
       ELSE [ret |-> SUCCESS_OPERATION,
             store |-> [st EXCEPT !.ents = SwapRemove(@, i + 1),
                                  !.comps = IF st.kind = ComponentStandard
                                            THEN SwapRemove(@, i + 1) ELSE @]]

\* get(e) / getConst(e): [threw, ret]; an empty-kind store and an absent
\* entity are errors
csGet(st, e) ==
    IF st.kind # ComponentStandard \/ ~csContains(st, e)
    THEN [threw |-> TRUE, ret |-> 0]
    ELSE [threw |-> FALSE, ret |-> st.comps[csIndex(st, e) + 1]]

\* tryGet(e) / tryGetConst(e): [threw, ret]; an empty-kind store is an error,
\* an absent entity gives none
None == 0

csTryGet(st, e) ==
    IF st.kind # ComponentStandard THEN [threw |-> TRUE, ret |-> None]
    ELSE IF ~csContains(st, e) THEN [threw |-> FALSE, ret |-> None]
    ELSE [threw |-> FALSE, ret |-> st.comps[csIndex(st, e) + 1]]

\* swap(a, b, instancesOnly): [ret, store]; the payloads of the two positions
\* are exchanged, and the entities with them unless instancesOnly
csSwap(st, a, b, instancesOnly) ==
    LET i == csIndex(st, a) + 1
        j == csIndex(st, b) + 1
        Exchange(q) == [k \in 1..Len(q) |-> IF k = i THEN q[j] ELSE IF k = j THEN q[i] ELSE q[k]]
    IN IF a = b \/ ~csContains(st, a) \/ ~csContains(st, b)
       THEN [ret |-> FAILED_OPERATION, store |-> st]
       ELSE [ret |-> SUCCESS_OPERATION,
             store |-> [st EXCEPT !.ents = IF instancesOnly THEN @ ELSE Exchange(@),
                                  !.comps = IF st.kind = ComponentStandard
                                            THEN Exchange(@) ELSE @]]

\* sortBasedComponent(cmp): [threw, ret, store]; a stable sort by payload that
\* moves each entity with its payload.  An empty-kind store rejects it and a
\* store of at most one entity returns failure.
csSort(st, cmp) ==
    LET n == Len(st.ents)
        Rank(i) == Cardinality({j \in 1..n :
                      \/ Before(cmp, st.comps[j], st.comps[i])
                      \/ st.comps[j] = st.comps[i] /\ j <= i})
        At(k) == CHOOSE i \in 1..n : Rank(i) = k
    IN IF st.kind # ComponentStandard THEN [threw |-> TRUE, ret |-> 0, store |-> st]
       ELSE IF n <= 1 THEN [threw |-> FALSE, ret |-> FAILED_OPERATION, store |-> st]
       ELSE [threw |-> FALSE, ret |-> SUCCESS_OPERATION,
             store |-> [st EXCEPT !.ents = [k \in 1..n |-> st.ents[At(k)]],
                                  !.comps = [k \in 1..n |-> st.comps[At(k)]]]]

(***************************************************************************)
(* Registry (Registry.js).  Each call is a function of the state to        *)
(* [threw, ret, components]; a call that throws leaves components as it    *)
(* found them unless it had already changed them.                          *)
(***************************************************************************)
SENTINEL == -1

\* The component types (constructors) and payload arguments of the calls.
CompTypes == {"T1", "T2"}
CompArgs == {1, 2}

Threw(cs) == [threw |-> TRUE, ret |-> 0, components |-> cs]
Returned(ret, cs) == [threw |-> FALSE, ret |-> ret, components |-> cs]

\* valid(entity)
valid(entity) == isAlive(entity)

\* prepare that makes a new store whether or not the type has one.
prepareAlways(cs, comp, CType, config) == (comp :> newStore(CType, config)) @@ cs

\* prepare(comp, CType, config) on the map cs: the map afterwards; the store
\* it returns is the one the map holds for comp.
prepare(cs, comp, CType, config) ==
    IF comp \in DOMAIN cs THEN cs ELSE (comp :> newStore(CType, config)) @@ cs

\* add that prepares the store of comp before it looks at the entity.
regAddInPrepareFirst(cs, entity, comp, CType, args, replace, config) ==
    LET prepared == prepare(cs, comp, CType, config)
    IN IF ~isAlive(entity) THEN Threw(prepared)
       ELSE LET r == csAdd(prepared[comp], entity, args, replace)
            IN Returned(r.ret, [prepared EXCEPT ![comp] = r.store])

\* add(entity, comp, CType, args, config) on the map cs
regAddIn(cs, entity, comp, CType, args, replace, config) ==
    IF ~isAlive(entity) THEN Threw(cs)
    ELSE LET prepared == prepare(cs, comp, CType, config)
             r == csAdd(prepared[comp], entity, args, replace)
         IN Returned(r.ret, [prepared EXCEPT ![comp] = r.store])

\* add(entity, comp, CType, args, config) with the default sizing of a store
regAdd(entity, comp, CType, args, replace) ==
    regAddIn(components, entity, comp, CType, args, replace, DefaultConfig)

\* An entry of the list given to addComps: a tuple [comp, CType, args], or
\* something that is not an array.
Malformed == <<"malformed">>
CompEntries == {<<c, ComponentStandard, 1>> : c \in CompTypes} \cup {Malformed}
CompLists == {<<>>} \cup {<<a>> : a \in CompEntries}
                  \cup {<<a, b>> : a \in CompEntries, b \in CompEntries}

\* The loop of addComps undoing the entries it has applied when it meets a
\* malformed one.
RECURSIVE addCompsFromAtomic(_, _, _, _)
addCompsFromAtomic(cs, entity, comps, k) ==
    IF k > Len(comps) THEN Returned(0, cs)
    ELSE IF comps[k] = Malformed THEN Threw(components)
    ELSE LET r == regAddIn(cs, entity, comps[k][1], comps[k][2], comps[k][3], TRUE,
                           DefaultConfig)
         IN IF r.threw THEN r ELSE addCompsFromAtomic(r.components, entity, comps, k + 1)

\* The loop of addComps over the entries from position k on.
RECURSIVE addCompsFrom(_, _, _, _)
addCompsFrom(cs, entity, comps, k) ==
    IF k > Len(comps) THEN Returned(0, cs)
    ELSE IF comps[k] = Malformed THEN Threw(cs)
    ELSE LET r == regAddIn(cs, entity, comps[k][1], comps[k][2], comps[k][3], TRUE,
                           DefaultConfig)
         IN IF r.threw THEN r ELSE addCompsFrom(r.components, entity, comps, k + 1)

\* addComps(entity, comps)
regAddComps(entity, comps) ==
    IF ~isAlive(entity) THEN Threw(components)
    ELSE addCompsFrom(components, entity, comps, 1)

\* replace that does not ask whether the store contains the entity.
regReplaceUnchecked(entity, comp, args) ==
    IF ~isAlive(entity) THEN Threw(components)
    ELSE IF comp \notin DOMAIN components THEN Threw(components)
    ELSE LET r == csAdd(components[comp], entity, args, TRUE)
         IN Returned(r.ret, [components EXCEPT ![comp] = r.store])

\* replace(entity, comp, args)
regReplace(entity, comp, args) ==
    IF ~isAlive(entity) THEN Threw(components)
    ELSE IF comp \notin DOMAIN components THEN Threw(components)
    ELSE IF ~csContains(components[comp], entity) THEN Threw(components)
    ELSE LET r == csAdd(components[comp], entity, args, TRUE)
         IN Returned(r.ret, [components EXCEPT ![comp] = r.store])

\* fetchReplace(entity, comp, args)
regFetchReplace(entity, comp, args) ==
    IF ~isAlive(entity) THEN Threw(components)
    ELSE IF comp \notin DOMAIN components THEN Threw(components)
    ELSE IF ~csContains(components[comp], entity) THEN Threw(components)
    ELSE LET oldComp == csGet(components[comp], entity)
             r == csAdd(components[comp], entity, args, TRUE)
         IN IF oldComp.threw THEN Threw(components)
            ELSE Returned(oldComp.ret, [components EXCEPT ![comp] = r.store])

\* remove(entity, comp)
regRemove(entity, comp) ==
    IF ~isAlive(entity) THEN Threw(components)
    ELSE IF comp \notin DOMAIN components THEN Threw(components)
    ELSE LET r == csRemove(components[comp], entity)
         IN Returned(r.ret, [components EXCEPT ![comp] = r.store])

\* removeIfExist that looks the store up with prepare.
regRemoveIfExistPrepares(entity, comp) ==
    IF ~isAlive(entity) THEN Threw(components)
    ELSE LET prepared == prepare(components, comp, ComponentStandard, DefaultConfig)
         IN IF ~csContains(prepared[comp], entity) THEN Returned(SENTINEL, prepared)
            ELSE LET r == csRemove(prepared[comp], entity)
                 IN Returned(r.ret, [prepared EXCEPT ![comp] = r.store])

\* removeIfExist(entity, comp)
regRemoveIfExist(entity, comp) ==
    IF ~isAlive(entity) THEN Threw(components)
    ELSE IF comp \notin DOMAIN components THEN Returned(SENTINEL, components)
    ELSE IF ~csContains(components[comp], entity) THEN Returned(SENTINEL, components)
    ELSE LET r == csRemove(components[comp], entity)
         IN Returned(r.ret, [components EXCEPT ![comp] = r.store])

\* The loop of removeAll: every store that contains the entity removes it.
purge(cs, entity) ==
    [c \in DOMAIN cs |->
        IF csContains(cs[c], entity) THEN csRemove(cs[c], entity).store ELSE cs[c]]

\* removeAll(entity)
regRemoveAll(entity) ==
    IF ~isAlive(entity) THEN Threw(components)
    ELSE Returned(0, purge(components, entity))

\* has(entity, comp)
regHas(entity, comp) ==
    IF ~isAlive(entity) THEN Threw(components)
    ELSE IF comp \notin DOMAIN components THEN Threw(components)
    ELSE Returned(csContains(components[comp], entity), components)

\* get(entity, comp) and getConst(entity, comp), which returns a copy
regGet(entity, comp) ==
    IF ~isAlive(entity) THEN Threw(components)
    ELSE IF comp \notin DOMAIN components THEN Threw(components)
    ELSE LET r == csGet(components[comp], entity)
         IN IF r.threw THEN Threw(components) ELSE Returned(r.ret, components)

regGetConst(entity, comp) ==
    IF ~isAlive(entity) THEN Threw(components)
    ELSE IF comp \notin DOMAIN components THEN Threw(components)
    ELSE LET r == csGet(components[comp], entity)
         IN IF r.threw THEN Threw(components) ELSE Returned(r.ret, components)

\* tryGet(entity, comp) and tryGetConst(entity, comp), which returns a copy
regTryGet(entity, comp) ==
    IF comp \notin DOMAIN components THEN Threw(components)
    ELSE LET r == csTryGet(components[comp], entity)
         IN IF r.threw THEN Threw(components) ELSE Returned(r.ret, components)

regTryGetConst(entity, comp) ==
    IF comp \notin DOMAIN components THEN Threw(components)
    ELSE LET r == csTryGet(components[comp], entity)
         IN IF r.threw THEN Threw(components) ELSE Returned(r.ret, components)

\* sort(comp, comparatorFunc)
regSort(comp, cmp) ==
    IF comp \notin DOMAIN components THEN Threw(components)
    ELSE LET r == csSort(components[comp], cmp)
         IN IF r.threw THEN Threw(components)
            ELSE Returned(r.ret, [components EXCEPT ![comp] = r.store])

\* prepare(comp).swap(a, b, instancesOnly) on a registered type: the store the
\* registry hands out swaps two of its entities.
storeSwap(comp, a, b, instancesOnly) ==
    LET r == csSwap(components[comp], a, b, instancesOnly)
    IN Returned(r.ret, [components EXCEPT ![comp] = r.store])

\* The types of the well-formed entries of comps before the first malformed
\* one: the entries addComps applies for a live entity.
RECURSIVE appliedTypes(_, _)
appliedTypes(comps, k) ==
    IF k > Len(comps) \/ comps[k] = Malformed THEN {}
    ELSE {comps[k][1]} \cup appliedTypes(comps, k + 1)

\* A call on the component stores with outcome r.  The observation keeps the
\* name of a call that changed a store; a call that changed nothing is
\* recorded by its outcome: whether it raised, and whether its entity was
\* alive.  la is lastAdded after the call.
RegApply(name, entity, r, la) ==
    /\ components' = r.components
    /\ lastAdded' = la
    /\ LET changed == r.components # components
       IN /\ changed => regCalls < MaxRegCalls
          /\ regCalls' = IF changed THEN regCalls + 1 ELSE regCalls
          /\ regOp' = [name |-> IF changed THEN name ELSE "none",
                       threw |-> r.threw, acted |-> changed,
                       alive |-> valid(entity)]
    /\ UNCHANGED <<handler, esVars, esObs, ssVars, ssObs, regConfig>>

\* create() (Registry.js 158-160)
RegCreate ==
    /\ esCalls < MaxRegEntityCalls
    /\ Cardinality(live) < MaxRegLive
    /\ (CreateFromFreeSlot \/ CreateAppend \/ CreateThrows)

\* destroy that purges the stores before it looks at the entity.
DestroyUnchecked(entity) ==
    /\ components' = purge(components, entity)
    /\ IF valid(entity)
       THEN esCalls < MaxRegEntityCalls /\ Remove(entity)
       ELSE UNCHANGED <<handler, esVars, esObs, ssVars, ssObs>>
    /\ regOp' = [name |-> "destroy", threw |-> FALSE, acted |-> valid(entity),
                 alive |-> valid(entity)]
    /\ UNCHANGED <<regCalls, lastAdded, regConfig>>

\* destroy that removes the entity and leaves its components in the stores.
DestroyWithoutPurge(entity) ==
    IF valid(entity)
    THEN /\ esCalls < MaxRegEntityCalls
         /\ Remove(entity)
         /\ regOp' = [name |-> "destroy", threw |-> FALSE, acted |-> TRUE, alive |-> TRUE]
         /\ UNCHANGED <<components, regCalls, lastAdded, regConfig>>
    ELSE /\ regOp' = [name |-> "destroy", threw |-> FALSE, acted |-> FALSE, alive |-> FALSE]
         /\ UNCHANGED <<handler, esVars, esObs, ssVars, ssObs, components, regCalls,
                      lastAdded, regConfig>>

\* destroy(entity) (Registry.js 167-171)
Destroy(entity) ==
    IF valid(entity)
    THEN /\ esCalls < MaxRegEntityCalls
         /\ components' = purge(components, entity)
         /\ Remove(entity)
         /\ regOp' = [name |-> "destroy", threw |-> FALSE, acted |-> TRUE, alive |-> TRUE]
         /\ UNCHANGED <<regCalls, lastAdded, regConfig>>
    ELSE /\ regOp' = [name |-> "destroy", threw |-> FALSE, acted |-> FALSE, alive |-> FALSE]
         /\ UNCHANGED <<handler, esVars, esObs, ssVars, ssObs, components, regCalls,
                      lastAdded, regConfig>>

RegAdd(entity, comp, CType, args, replace) ==
    LET r == regAdd(entity, comp, CType, args, replace)
    IN RegApply("add", entity, r,
                IF ~r.threw /\ r.ret # FAILED_OPERATION
                THEN lastAdded \cup {<<entity, comp>>} ELSE lastAdded)

RegAddComps(entity, comps) ==
    RegApply("addComps", entity, regAddComps(entity, comps),
             IF valid(entity)
             THEN lastAdded \cup {<<entity, c>> : c \in appliedTypes(comps, 1)}
             ELSE lastAdded)

RegReplace(entity, comp, args) ==
    RegApply("replace", entity, regReplace(entity, comp, args), lastAdded)

RegFetchReplace(entity, comp, args) ==
    RegApply("fetchReplace", entity, regFetchReplace(entity, comp, args), lastAdded)

RegRemove(entity, comp) ==
    LET r == regRemove(entity, comp)
    IN RegApply("remove", entity, r,
                IF ~r.threw /\ r.ret = SUCCESS_OPERATION
                THEN lastAdded \ {<<entity, comp>>} ELSE lastAdded)

RegRemoveIfExist(entity, comp) ==
    LET r == regRemoveIfExist(entity, comp)
    IN RegApply("removeIfExist", entity, r,
                IF ~r.threw /\ r.ret = SUCCESS_OPERATION
                THEN lastAdded \ {<<entity, comp>>} ELSE lastAdded)

RegRemoveAll(entity) ==
    LET r == regRemoveAll(entity)
    IN RegApply("removeAll", entity, r,
                IF ~r.threw THEN {p \in lastAdded : p[1] # entity} ELSE lastAdded)

RegHas(entity, comp) == RegApply("has", entity, regHas(entity, comp), lastAdded)
RegGet(entity, comp) == RegApply("get", entity, regGet(entity, comp), lastAdded)
RegGetConst(entity, comp) ==
    RegApply("getConst", entity, regGetConst(entity, comp), lastAdded)

RegTryGet(entity, comp) ==
    RegApply("tryGet", entity, regTryGet(entity, comp), lastAdded)
RegTryGetConst(entity, comp) ==
    RegApply("tryGetConst", entity, regTryGetConst(entity, comp), lastAdded)

\* prepare(comp, CType, config) (Registry.js 82-96).  The observation names
\* a call for a registered type with another kind or configuration than its
\* store has "prepareOther".
Prepare(comp, CType, config) ==
    /\ components' = prepare(components, comp, CType, config)
    /\ LET changed == comp \notin DOMAIN components
           other == /\ ~changed
                    /\ \/ components[comp].kind # CType
                       \/ components[comp].config # config
       IN /\ changed => regCalls < MaxRegCalls
          /\ regCalls' = IF changed THEN regCalls + 1 ELSE regCalls
          /\ regOp' = [name |-> IF other THEN "prepareOther" ELSE "prepare",
                       threw |-> FALSE, acted |-> changed, alive |-> FALSE]
    /\ UNCHANGED <<handler, esVars, esObs, ssVars, ssObs, lastAdded, regConfig>>

\* sort(comp, comparatorFunc) and the swap of a store: they move entities
\* inside a store and are not counted as calls.
Rearrange(name, r) ==
    /\ components' = r.components
    /\ regOp' = [name |-> IF r.components # components THEN name ELSE "none",
                 threw |-> r.threw, acted |-> r.components # components,
                 alive |-> TRUE]
    /\ UNCHANGED <<handler, esVars, esObs, ssVars, ssObs, regCalls, lastAdded, regConfig>>

RegSort(comp, cmp) == Rearrange("sort", regSort(comp, cmp))

StoreSwap(comp, a, b, instancesOnly) ==
    /\ comp \in DOMAIN components
    /\ Rearrange("swap", storeSwap(comp, a, b, instancesOnly))

\* The handles the calls are made with: every handle create() has returned,
\* alive or not, and one that no create() of these runs returns.
RegEntities == live \cup removed \cup {hMake(INVALID_IDX, versionMask)}

NextReg ==
    \/ RegCreate
    \/ \E e \in RegEntities : Destroy(e)
    \/ \E e \in RegEntities, c \in CompTypes, k \in Kinds, a \in CompArgs, rp \in BOOLEAN :
          RegAdd(e, c, k, a, rp)
    \/ \E e \in RegEntities, l \in CompLists : RegAddComps(e, l)
    \/ \E e \in RegEntities, c \in CompTypes, a \in CompArgs : RegReplace(e, c, a)
    \/ \E e \in RegEntities, c \in CompTypes, a \in CompArgs : RegFetchReplace(e, c, a)
    \/ \E e \in RegEntities, c \in CompTypes : RegRemove(e, c)
    \/ \E e \in RegEntities, c \in CompTypes : RegRemoveIfExist(e, c)
    \/ \E e \in RegEntities : RegRemoveAll(e)
    \/ \E e \in RegEntities, c \in CompTypes : RegHas(e, c)
    \/ \E e \in RegEntities, c \in CompTypes : RegGet(e, c)
    \/ \E e \in RegEntities, c \in CompTypes : RegGetConst(e, c)
    \/ \E c \in CompTypes, cmp \in Comparators : RegSort(c, cmp)
    \/ \E c \in CompTypes, a \in live, b \in live, io \in BOOLEAN : StoreSwap(c, a, b, io)

\* new Registry(config) (Registry.js 64-71): no store, and a fresh EntityStore
\* with the default flags (typed array, resizable) and the largest capacity
\* and index width of the model.
InitReg ==
    /\ Init
    /\ handler.indexBits = MaxIndexBits
    /\ cap = MaxCapacity
    /\ resizable
    /\ isTypedArray

SpecReg == InitReg /\ [][NextReg]_vars

\* Only create, prepare and add with every sizing configuration: the calls
\* that register stores.
RegAddSized(entity, comp, CType, args, replace, config) ==
    LET r == regAddIn(components, entity, comp, CType, args, replace, config)
    IN RegApply("add", entity, r,
                IF ~r.threw /\ r.ret # FAILED_OPERATION
                THEN lastAdded \cup {<<entity, comp>>} ELSE lastAdded)

NextPrepare ==
    \/ RegCreate
    \/ \E c \in CompTypes, k \in Kinds, g \in Configs : Prepare(c, k, g)
    \/ \E e \in RegEntities, c \in CompTypes, k \in Kinds, a \in CompArgs,
          rp \in BOOLEAN, g \in Configs : RegAddSized(e, c, k, a, rp, g)

SpecPrepare == InitReg /\ [][NextPrepare]_vars

\* Only create, destroy, add and the tryGet family.
NextTryGet ==
    \/ RegCreate
    \/ \E e \in RegEntities : Destroy(e)
    \/ \E e \in RegEntities, c \in CompTypes, k \in Kinds, a \in CompArgs, rp \in BOOLEAN :
          RegAdd(e, c, k, a, rp)
    \/ \E e \in RegEntities, c \in CompTypes : RegTryGet(e, c)
    \/ \E e \in RegEntities, c \in CompTypes : RegTryGetConst(e, c)

SpecTryGet == InitReg /\ [][NextTryGet]_vars

\* Only create, destroy, addComps and removeAll.
NextAddComps ==
    \/ RegCreate
    \/ \E e \in RegEntities : Destroy(e)
    \/ \E e \in RegEntities, l \in CompLists : RegAddComps(e, l)
    \/ \E e \in RegEntities : RegRemoveAll(e)

SpecAddComps == InitReg /\ [][NextAddComps]_vars

\* Only create, destroy, add, replace and fetchReplace.
NextReplace ==
    \/ RegCreate
    \/ \E e \in RegEntities : Destroy(e)
    \/ \E e \in RegEntities, c \in CompTypes, k \in Kinds, a \in CompArgs, rp \in BOOLEAN :
          RegAdd(e, c, k, a, rp)
    \/ \E e \in RegEntities, c \in CompTypes, a \in CompArgs : RegReplace(e, c, a)
    \/ \E e \in RegEntities, c \in CompTypes, a \in CompArgs : RegFetchReplace(e, c, a)

SpecReplace == InitReg /\ [][NextReplace]_vars

(***************************************************************************)
(* EntityStore properties                                                  *)
(***************************************************************************)

\* C1: every handle create() returned and remove() has not taken since is
\* alive: its index is below append_index and its slot holds exactly it.
C1_LiveHandlesAreAlive == \A e \in live : isAlive(e)

\* C2: a handle remove() has accepted is not alive in any later state.
C2_RemovedNeverAliveAgain == \A e \in removed : ~isAlive(e)

\* C3: a handle create() issues at the slot of a previously removed handle
\* carries a version strictly greater than that handle's version.
C3_VersionsStrictlyIncrease ==
    (esOp.name = "create" /\ esOp.ok) =>
        \A e \in removed :
            hIndex(e) = hIndex(esOp.ret) => hVersion(esOp.ret) > hVersion(e)

\* The slots met by following the index field of the freed cells from slot
\* `at`, for at most `fuel` cells; stops at the first value that is no slot
\* below append_index.
RECURSIVE ChainFrom(_, _)
ChainFrom(at, fuel) ==
    IF fuel = 0 \/ at < 0 \/ at >= append_index THEN <<>>
    ELSE <<at>> \o ChainFrom(hIndex(ArrGet(entities, at)), fuel - 1)

\* Where the walk of ChainFrom ends.
RECURSIVE ChainEnd(_, _)
ChainEnd(at, fuel) ==
    IF fuel = 0 \/ at < 0 \/ at >= append_index THEN at
    ELSE ChainEnd(hIndex(ArrGet(entities, at)), fuel - 1)

FreeChain == ChainFrom(free_slot, append_index + 1)
NonLiveSlots == {i \in 0..(append_index - 1) : ~isAlive(ArrGet(entities, i))}

\* C4: the free-slot chain visits every non-live slot below append_index
\* exactly once and no live slot, then reaches the end-of-list marker; and
\* free_slot is the empty-list sentinel exactly when no slot is free.
C4_FreeChainWellFormed ==
    /\ \A i, j \in 1..Len(FreeChain) : i # j => FreeChain[i] # FreeChain[j]
    /\ {FreeChain[i] : i \in 1..Len(FreeChain)} = NonLiveSlots
    /\ ChainEnd(free_slot, append_index + 1) \in {IDX_SENTINEL, INVALID_IDX}
    /\ (free_slot = IDX_SENTINEL) <=> (NonLiveSlots = {})

\* C5: create N, remove all N, create N again: the N new handles sit in the
\* N original slots, append_index is still N, and each version is the
\* original version of its slot plus one.
C5_RecycleReusesEverySlot ==
    recycle.phase = "done" =>
        /\ append_index = recycle.n
        /\ Cardinality(recycle.got) = recycle.n
        /\ {hIndex(e) : e \in recycle.got} = {hIndex(e) : e \in recycle.first}
        /\ \A e \in recycle.got : \E o \in recycle.first :
               hIndex(o) = hIndex(e) /\ hVersion(e) = hVersion(o) + 1

\* Three entities were created, all three removed, and three created again.
C5_Witness == recycle.phase = "done" /\ recycle.n = 3 /\ Cardinality(recycle.first) = 3

\* C6: a successful create() returns make(s, v) for the most recently freed
\* slot s not yet reused and the version v stored in its cell, leaving
\* append_index alone, when a freed slot exists; otherwise it returns
\* make(append_index, 0) and increments append_index.
C6_CreatePicksSlot ==
    [][(esOp'.name = "create" /\ esOp'.ok /\ esCalls' = esCalls + 1) =>
          IF freed # <<>>
          THEN /\ esOp'.ret = hMake(Head(freed), hVersion(ArrGet(entities, Head(freed))))
               /\ append_index' = append_index
          ELSE /\ esOp'.ret = hMake(append_index, 0)
               /\ append_index' = append_index + 1]_vars

(***************************************************************************)
(* SparseSet properties                                                    *)
(***************************************************************************)
ssNext == [dense |-> dense', length |-> length', sparse |-> sparse']

\* Every position below len of st.dense is the value of its entity's cell.
DenseIndexed(st) ==
    \A i \in 0..(st.length - 1) :
        /\ pageIndex(ArrGet(st.dense, i)) \in DOMAIN st.sparse
        /\ PageCell(st.sparse, ArrGet(st.dense, i)) = i

\* C7: after any sequence of add, remove, swap and resize calls from the
\* empty set, the sparse cell of dense[i] holds i for every i in [0, length).
C7_SparseMirrorsDense == DenseIndexed(ssNow)

\* A swap succeeded on a set of two entities that live on different pages.
C7_Witness ==
    /\ ssOp.name = "swap" /\ ssOp.ret = SUCCESS_OPERATION
    /\ length = 2
    /\ pageIndex(ArrGet(dense, 0)) # pageIndex(ArrGet(dense, 1))
    /\ Len(dense) > length

\* How often x occurs in the first n positions of d.
Count(d, n, x) == Cardinality({i \in 1..n : d[i] = x})

\* C8: sort(cmp) leaves in dense[0..length) the entities it held before, in
\* the order of cmp, with the sparse cell of dense[i] holding i.
C8_SortKeepsTheSet ==
    [][\A cmp \in Comparators : Sort(cmp) =>
          /\ ~ssOp'.threw /\ ssOp'.ret = SUCCESS_OPERATION
          /\ length' = length
          /\ \A x \in {dense[i] : i \in 1..length} \cup {dense'[i] : i \in 1..length} :
                Count(dense', length, x) = Count(dense, length, x)
          /\ \A i, j \in 1..length : i < j => ~Before(cmp, dense'[j], dense'[i])
          /\ DenseIndexed(ssNext)]_vars

\* C9: after reset(), an entity is absent unless it was added again since;
\* stated for the ids no generation of whose slot was added since the reset,
\* so that only a cell left over from before the reset can make them present.
C9_ResetForgetsEverything ==
    afterReset =>
        \A e \in SSEntities :
            (\A a \in sinceReset : hIndex(a) # hIndex(e)) =>
                ~contains(e) /\ index(e) = FAILED_OPERATION

\* C10: remove(e) of a contained entity at position i returns 0; then e is not
\* contained, length is one smaller, every entity other than e and the
\* former last one keeps its dense index, and the former last one is at i
\* when i is not the last position.  Stated for an e that dense[i] really
\* holds and for the other entities of other slots, so that the lookup by
\* slot alone (an id of another generation reads as e) is not what fails.
C10_RemoveSwapsWithLast ==
    [][\A e \in SSEntities : (contains(e) /\ ArrGet(dense, index(e)) = e /\ SSRemove(e)) =>
          LET i == index(e)
              j == length - 1
              last == ArrGet(dense, j)
          IN /\ ssOp'.ret = SUCCESS_OPERATION
             /\ ~containsIn(ssNext, e)
             /\ length' = length - 1
             /\ \A x \in SSEntities \ {e, last} :
                    hIndex(x) \notin {hIndex(e), hIndex(last)} => indexIn(ssNext, x) = index(x)
             /\ i # j => indexIn(ssNext, last) = i]_vars

\* The first n cells of d are those of dense.
SamePrefix(d, n) == \A i \in 1..n : d[i] = dense[i]

\* contains and index answer on st as they do now, for every id.
SameLookups(st) ==
    \A x \in SSEntities :
        /\ containsIn(st, x) = contains(x)
        /\ indexIn(st, x) = index(x)

\* C11: remove(e) of an entity that contains(e) reports absent returns -1
\* and leaves length, dense[0..length) and every contains/index answer as
\* they were.
C11_RemoveAbsentFails ==
    \A e \in SSEntities :
        ~contains(e) =>
            \A r \in {removeResult(e)} :
               /\ r.ret = FAILED_OPERATION /\ ~r.threw
               /\ r.length = length
               /\ SamePrefix(r.dense, length)
               /\ SameLookups(r)

\* C12: add(e) of a contained entity returns index(e) and changes nothing:
\* length, dense[0..length), capacity and every contains/index answer stay,
\* and e is contained after any add that did not fail, so a second add(e)
\* right after a first one is such a call.
C12_AddContainedIsNoOp ==
    \A e \in SSEntities, rs \in BOOLEAN :
        \A r \in {addResult(e, rs)} :
           /\ r.ret # FAILED_OPERATION => containsIn(r, e)
           /\ contains(e) =>
                 /\ r.ret = index(e)
                 /\ r.length = length
                 /\ Len(r.dense) = capacity
                 /\ SamePrefix(r.dense, length)
                 /\ SameLookups(r)

\* add was called for the entity at dense position 0 of a set of two.
C12_Witness == ssOp.name = "add" /\ ssOp.ret = 0 /\ length = 2

\* The step is a successful add of an entity that was not contained.
FreshAdd == ssOp'.name = "add" /\ length' = length + 1

\* C13: a successful add(e) of an entity that was not contained (the step
\* that lengthens the set by e), followed by remove(e), gives back the
\* length, dense[0..length) and every contains/index answer of before the
\* add.
C13_RemoveUndoesAdd ==
    [][FreshAdd => \A e \in SSEntities :
          e = ArrGet(dense', length) =>
              \A r \in {removeResult(e)'} :
                 /\ ~contains(e)
                 /\ r.ret = SUCCESS_OPERATION /\ ~r.threw
                 /\ r.length = length
                 /\ SamePrefix(r.dense, length)
                 /\ SameLookups(r)]_vars

\* An entity was added as the second one of a set whose dense array is then
\* full.
C13_Witness ==
    /\ ssOp.name = "add" /\ ssOp.ret = 1 /\ length = 2
    /\ Len(dense) = 2

\* C14: swap(a, b) returns 0 exactly when a and b are both contained and
\* a # b; then a and b have exchanged their dense positions, the two dense
\* cells have exchanged their contents, every id of another slot keeps its
\* dense index, every other dense cell and length stay; in every other
\* case it returns -1 and dense, sparse and length are unchanged.
C14_SwapExchangesPositions ==
    \A a, b \in SSEntities :
        \A r \in {swapResult(a, b)} :
        LET ok == r.ret = SUCCESS_OPERATION
        IN /\ ~r.threw
           /\ ok <=> (a # b /\ contains(a) /\ contains(b))
           /\ ok =>
                /\ indexIn(r, a) = index(b) /\ indexIn(r, b) = index(a)
                /\ ArrGet(r.dense, index(a)) = ArrGet(dense, index(b))
                /\ ArrGet(r.dense, index(b)) = ArrGet(dense, index(a))
                /\ r.length = length /\ Len(r.dense) = Len(dense)
                /\ \A i \in 0..(Len(dense) - 1) :
                       i \notin {index(a), index(b)} => ArrGet(r.dense, i) = ArrGet(dense, i)
                /\ \A x \in SSEntities :
                       hIndex(x) \notin {hIndex(a), hIndex(b)} => indexIn(r, x) = index(x)
           /\ ~ok =>
                /\ r.ret = FAILED_OPERATION
                /\ r.dense = dense /\ r.sparse = sparse /\ r.length = length

\* A swap succeeded in a set of three entities.
C14_Witness == ssOp.name = "swap" /\ ssOp.ret = SUCCESS_OPERATION /\ length = 3

\* C15: add(e, true) of an entity that is not contained never returns -1:
\* it returns the new dense index of e, and when length equals capacity the
\* dense array has grown, to twice the capacity or, from capacity 0, to a
\* positive size.
C15_AddWithResizeSucceeds ==
    \A e \in SSEntities :
        ~contains(e) =>
            \A r \in {addResult(e, TRUE)} :
               /\ r.ret # FAILED_OPERATION
               /\ r.ret = length /\ indexIn(r, e) = length
               /\ length = capacity =>
                     IF capacity = 0 THEN Len(r.dense) > 0
                     ELSE Len(r.dense) = 2 * capacity

\* C16: add(e, false) of an entity that is not contained, when length equals
\* capacity, returns -1 and has no effect: length and capacity stay, e is
\* not contained, no page is allocated, and every contained entity keeps
\* its dense index.
C16_AddWithoutResizeFails ==
    \A e \in SSEntities :
        (~contains(e) /\ length = capacity) =>
            \A r \in {addResult(e, FALSE)} :
               /\ r.ret = FAILED_OPERATION
               /\ r.length = length /\ Len(r.dense) = capacity
               /\ ~containsIn(r, e)
               /\ DOMAIN r.sparse = DOMAIN sparse
               /\ SameLookups(r)

\* An add failed on a full set of two entities.
C16_Witness ==
    /\ ssOp.name = "add" /\ ssOp.ret = FAILED_OPERATION
    /\ length = 2 /\ capacity = 2

\* C17: no page exists at construction, and a page comes into existence
\* only in a step that is a successful add of an entity whose index lies in
\* that page (so never in remove, swap, sort, resize, reset, clear or a
\* failed add); such an add leaves the cells of every other page alone.
C17_PagesAllocatedByAddOnly ==
    /\ sparse = <<>>
    /\ [][LET e == ArrGet(dense', length)
          IN /\ DOMAIN sparse' \subseteq
                    DOMAIN sparse \cup (IF FreshAdd THEN {pageIndex(e)} ELSE {})
             /\ FreshAdd =>
                    \A p \in DOMAIN sparse : p # pageIndex(e) => sparse'[p] = sparse[p]]_vars

\* An add has allocated a second page.
C17_Witness == ssOp.name = "add" /\ Cardinality(DOMAIN sparse) = 2

(***************************************************************************)
(* Registry properties                                                     *)
(***************************************************************************)
\* The step is destroy(e) of a live entity e: the only Registry call that
\* makes the entity store remove a handle.
DestroyStep(e) ==
    /\ esCalls' = esCalls + 1
    /\ esOp'.name = "remove"
    /\ esOp'.arg = e

\* The step is the first create() after destroy(e) of a live entity e.
CreateAfterDestroy(e) ==
    /\ esOp.name = "remove"
    /\ esOp.arg = e
    /\ esOp'.name = "create"

\* What destroy(e) of a live entity leaves in the stores: e is not valid, no
\* store contains it, the stores that contained it are one shorter and the
\* others are as they were.
Purged(e) ==
    /\ ~valid(e)'
    /\ DOMAIN components' = DOMAIN components
    /\ \A c \in DOMAIN components :
          /\ ~csContains(components'[c], e)
          /\ IF csContains(components[c], e)
             THEN csLen(components'[c]) = csLen(components[c]) - 1
             ELSE components'[c] = components[c]

Refused(r) == r.threw /\ r.components = components

HasIn(cs, e, c) == csContains(cs[c], e)

SameHas(r) ==
    /\ DOMAIN r.components = DOMAIN components
    /\ \A c \in DOMAIN components, x \in Handles :
          HasIn(r.components, x, c) <=> HasIn(components, x, c)

KeepsStore(p, q, comp, e) ==
    /\ q[comp].kind = p[comp].kind
    /\ q[comp].config = p[comp].config
    /\ Len(q[comp].ents) >= Len(p[comp].ents)
    /\ \A i \in 1..Len(p[comp].ents) :
          hIndex(p[comp].ents[i]) # hIndex(e) =>
             /\ q[comp].ents[i] = p[comp].ents[i]
             /\ p[comp].kind = ComponentStandard => q[comp].comps[i] = p[comp].comps[i]

HasComponent(e, c) == c \in DOMAIN components /\ HasIn(components, e, c)

LongCompLists ==
    CompLists \cup {<<a, b, c>> : a \in CompEntries, b \in CompEntries, c \in CompEntries}

FirstMalformed(l) ==
    IF \E k \in 1..Len(l) : l[k] = Malformed
    THEN CHOOSE k \in 1..Len(l) :
            l[k] = Malformed /\ \A j \in 1..(k - 1) : l[j] # Malformed
    ELSE Len(l) + 1

CreateWithoutFreeSlot == CreateAppend \/ CreateThrows

\* C26: with no freed slot and handles left, create() of a non-resizable
\* store of capacity C succeeds as long as appendIndex < C and fails only
\* when the next slot lies outside the C-slot array; in a resizable store
\* that situation doubles cap and the create succeeds with every live handle
\* still alive.
C26_CreateFillsTheCapacity ==
    [][(CreateWithoutFreeSlot /\ append_index # INVALID_IDX) =>
         /\ (~resizable /\ append_index < cap) => esOp'.ok
         /\ (~resizable /\ ~esOp'.ok) => append_index >= cap
         /\ (resizable /\ append_index >= cap) =>
               /\ esOp'.ok
               /\ cap' = 2 * cap
               /\ \A e \in Handles : isAlive(e) => isAlive(e)']_vars

\* The error create() raises when it finds no freed slot and cannot append
\* (EntityStore.js 121-126): the handle test comes before the capacity test.
createError ==
    IF append_index = INVALID_IDX THEN "Out Of Handles"
    ELSE "Limit reached Cant Resize "

CreateStep == CreateFromFreeSlot \/ CreateAppend \/ CreateThrows

\* C27: a create() with no freed slot available fails with OutOfHandles
\* exactly when appendIndex = INVALID_INDEX; a failing create() leaves
\* entities, appendIndex, freeSlot and cap unchanged; and create() never
\* returns a handle whose index is INVALID_INDEX.
C27_OutOfHandlesAtInvalidIndex ==
    [][CreateStep =>
         /\ freed = <<>> =>
               ((~esOp'.ok /\ createError = "Out Of Handles")
                   <=> append_index = INVALID_IDX)
         /\ ~esOp'.ok => UNCHANGED <<entities, append_index, free_slot, cap>>
         /\ esOp'.ok => hIndex(esOp'.ret) # INVALID_IDX]_vars

\* C28: remove(e) of a handle that is not alive (never issued, already
\* removed, or a stale version of a recycled slot) fails and leaves entities,
\* appendIndex and the free list unchanged; so the second of two removes of
\* the same handle fails.
C28_RemoveOfDeadHandleFails ==
    [][esOp'.name = "remove" =>
         \A e \in Handles \ live :
            (Remove(e) \/ RemoveThrows(e)) =>
                /\ ~esOp'.ok
                /\ UNCHANGED <<entities, append_index, free_slot>>]_vars

\* Iterator().next() (EntityStore.js 192-206); the iterator is its index.
Null == -3

RECURSIVE iterScan(_)
iterScan(i) ==
    IF i >= append_index THEN [ret |-> Null, index |-> i]
    ELSE IF isAlive(ArrGet(entities, i))
         THEN [ret |-> ArrGet(entities, i), index |-> i + 1]
         ELSE iterScan(i + 1)

iterNext(idx) ==
    IF idx >= append_index THEN [ret |-> Null, index |-> idx]
    ELSE iterScan(idx)

\* next() called until it returns null: the results with the index each left.
RECURSIVE iterDrain(_)
iterDrain(idx) ==
    LET r == iterNext(idx)
    IN IF r.ret = Null THEN <<>> ELSE <<r>> \o iterDrain(r.index)

\* C29: in every reachable state a fresh iterator, drained, yields exactly
\* the live handles, each once, in ascending slot order, and never the
\* content of a freed cell.
C29_IteratorYieldsTheLiveHandles ==
    \A d \in {iterDrain(0)} :
        /\ {d[k].ret : k \in DOMAIN d} = live
        /\ \A k, l \in DOMAIN d :
              k < l => /\ d[k].ret # d[l].ret
                       /\ hIndex(d[k].ret) < hIndex(d[l].ret)
        /\ \A k \in DOMAIN d, f \in DOMAIN freed : d[k].index - 1 # freed[f]

(***************************************************************************)
(* EntityHandleFactory at its real widths.  A Number handle is an int32:   *)
(* << | & give int32 results, >>> an unsigned one.  The operators below    *)
(* compute them without leaving the int32 range.                           *)
(***************************************************************************)
MinInt32 == -2147483647 - 1
MaxInt32 == 2147483647

\* The low 31 bits of an int32.
Low31(x) == IF x >= 0 THEN x ELSE x - MinInt32

RECURSIVE AndLow(_, _, _)
AndLow(a, b, n) ==
    IF n = 0 THEN 0
    ELSE (a % 2) * (b % 2) + 2 * AndLow(a \div 2, b \div 2, n - 1)

RECURSIVE OrLow(_, _, _)
OrLow(a, b, n) ==
    IF n = 0 THEN 0
    ELSE (IF a % 2 = 1 \/ b % 2 = 1 THEN 1 ELSE 0)
            + 2 * OrLow(a \div 2, b \div 2, n - 1)

\* x & y
And32(x, y) ==
    AndLow(Low31(x), Low31(y), 31) + (IF x < 0 /\ y < 0 THEN MinInt32 ELSE 0)

\* x | y
Or32(x, y) ==
    OrLow(Low31(x), Low31(y), 31) + (IF x < 0 \/ y < 0 THEN MinInt32 ELSE 0)

\* x << k, 0 <= k <= 31: bit 31 - k of x becomes the sign.
Shl32(x, k) ==
    IF k = 0 THEN x
    ELSE LET m == 31 - k
             lo == Low31(x)
             body == IF k = 31 THEN 0 ELSE (lo % 2 ^ m) * 2 ^ k
             top == (lo \div 2 ^ m) % 2
         IN IF top = 1 THEN body + MinInt32 ELSE body

\* x >>> k, 1 <= k <= 31: the sign bit comes down as an ordinary bit.
Shr32u(x, k) ==
    IF k = 31 THEN (IF x < 0 THEN 1 ELSE 0)
    ELSE Low31(x) \div 2 ^ k + (IF x < 0 THEN 2 ^ (31 - k) ELSE 0)

\* (1 << bits) - 1 as & reads it: for 31 bits it is -2147483649, whose low
\* 32 bits are 0x7FFFFFFF (part_000 75-76).
numMask(bits) == IF bits = 31 THEN MaxInt32 ELSE Shl32(1, bits) - 1

\* The Number handler (part_000 79-91).
numMakeShiftsByIndexBits(ib, vb, i, v) ==
    Or32(Shl32(And32(i, numMask(ib)), ib), And32(v, numMask(vb)))

numMake(ib, vb, i, v) ==
    Or32(Shl32(And32(i, numMask(ib)), vb), And32(v, numMask(vb)))

numIndex(ib, vb, id) == And32(Shr32u(id, vb), numMask(ib))

numVersion(ib, vb, id) == And32(id, numMask(vb))

\* A BigInt is its bits, least significant first; 64 of them hold every
\* value the BigInt handler produces (totalBits <= 64).
BigBits == 64

\* BigInt(n) of a Number 0 <= n < 2^31
bigOf(n) == [k \in 0..(BigBits - 1) |-> IF k < 31 THEN (n \div 2 ^ k) % 2 ELSE 0]

\* (1n << BigInt(bits)) - 1n (part_000 53-54)
bigMask(bits) == [k \in 0..(BigBits - 1) |-> IF k < bits THEN 1 ELSE 0]

bigAnd(a, b) == [k \in 0..(BigBits - 1) |-> a[k] * b[k]]

bigOr(a, b) == [k \in 0..(BigBits - 1) |-> IF a[k] = 1 \/ b[k] = 1 THEN 1 ELSE 0]

bigShl(a, n) == [k \in 0..(BigBits - 1) |-> IF k >= n THEN a[k - n] ELSE 0]

bigShr(a, n) == [k \in 0..(BigBits - 1) |-> IF k + n < BigBits THEN a[k + n] ELSE 0]

RECURSIVE bitsValue(_, _)
bitsValue(a, k) == IF k > 30 THEN 0 ELSE a[k] + 2 * bitsValue(a, k + 1)

\* Number(n) of a BigInt; -1 stands for every value of 2^31 or more, which
\* no input below is.
numberOf(a) ==
    IF \E k \in 31..(BigBits - 1) : a[k] = 1 THEN -1 ELSE bitsValue(a, 0)

\* The BigInt handler (part_000 57-70).
bigMake(ib, vb, i, v) ==
    bigOr(bigShl(bigAnd(bigOf(i), bigMask(ib)), vb), bigAnd(bigOf(v), bigMask(vb)))

bigIndex(ib, vb, id) == numberOf(bigAnd(bigShr(id, vb), bigMask(ib)))

bigVersion(ib, vb, id) == numberOf(bigAnd(id, bigMask(vb)))

\* EntityHandleFactory(indexBits, versionBits) (part_000 41-96): it throws
\* for these widths, and picks the BigInt handler above 32 bits.
FactoryThrows(ib, vb) == ib + vb > 64 \/ ib <= 0 \/ vb <= 0

IsBigInt(h) == h.indexBits + h.versionBits > 32

handleMake(h, i, v) ==
    IF IsBigInt(h) THEN bigMake(h.indexBits, h.versionBits, i, v)
    ELSE numMake(h.indexBits, h.versionBits, i, v)

handleIndex(h, id) ==
    IF IsBigInt(h) THEN bigIndex(h.indexBits, h.versionBits, id)
    ELSE numIndex(h.indexBits, h.versionBits, id)

handleVersion(h, id) ==
    IF IsBigInt(h) THEN bigVersion(h.indexBits, h.versionBits, id)
    ELSE numVersion(h.indexBits, h.versionBits, id)

\* The widths checked: the three exported handlers (12, 4), (20, 12) and
\* (32, 32), the narrowest, the 32-bit Number handlers whose handles use the
\* sign bit, and BigInt handlers on both sides of them.
CodecWidths ==
    {<<1, 1>>, <<12, 4>>, <<20, 12>>, <<32, 32>>, <<16, 16>>, <<31, 1>>,
     <<1, 31>>, <<3, 29>>, <<17, 16>>, <<1, 32>>, <<40, 24>>, <<24, 40>>}

CodecHandlers ==
    {[indexBits |-> w[1], versionBits |-> w[2]] : w \in CodecWidths}

\* Values of a field of the given width: both ends, the top bit alone, the
\* bit below it set with the lowest (as far as they are below 2^31).
FieldValues(bits) ==
    IF bits >= 31 THEN {0, 1, 2 ^ 30, 2 ^ 30 + 1, MaxInt32}
    ELSE {0, 1, 2 ^ (bits - 1), 2 ^ bits - 1}
            \cup (IF bits >= 2 THEN {2 ^ (bits - 2) + 1} ELSE {})

InitCodec ==
    /\ handler \in CodecHandlers
    /\ ~FactoryThrows(handler.indexBits, handler.versionBits)
    /\ IdleES /\ IdleSS /\ IdleReg

\* id = handler.make(i, v)
HandleMake(i, v) ==
    /\ esOp.name # "make"
    /\ esOp' = [name |-> "make", arg |-> <<i, v>>, ok |-> TRUE,
                ret |-> handleMake(handler, i, v)]
    /\ UNCHANGED <<handler, esVars, esCalls, live, removed, freed, recycle>>
    /\ UNCHANGED <<ssVars, ssObs, regVars>>

\* handler.index(id) of the handle just made
HandleIndex ==
    /\ esOp.name = "make"
    /\ esOp' = [name |-> "index", arg |-> esOp.arg, ok |-> TRUE,
                ret |-> handleIndex(handler, esOp.ret)]
    /\ UNCHANGED <<handler, esVars, esCalls, live, removed, freed, recycle>>
    /\ UNCHANGED <<ssVars, ssObs, regVars>>

\* handler.version(id) of the handle just made
HandleVersion ==
    /\ esOp.name = "make"
    /\ esOp' = [name |-> "version", arg |-> esOp.arg, ok |-> TRUE,
                ret |-> handleVersion(handler, esOp.ret)]
    /\ UNCHANGED <<handler, esVars, esCalls, live, removed, freed, recycle>>
    /\ UNCHANGED <<ssVars, ssObs, regVars>>

NextCodec ==
    \/ \E i \in FieldValues(handler.indexBits),
          v \in FieldValues(handler.versionBits) : HandleMake(i, v)
    \/ HandleIndex
    \/ HandleVersion

SpecCodec == InitCodec /\ [][NextCodec]_vars

\* C30: for every handler of the factory and every (i, v) within its widths,
\* index(make(i, v)) = i and version(make(i, v)) = v, and make(i, v) =
\* make(i', v') only if i = i' and v = v'.
C30_CodecRoundTrip ==
    /\ esOp.name = "index" => esOp.ret = esOp.arg[1]
    /\ esOp.name = "version" => esOp.ret = esOp.arg[2]
    /\ esOp.name = "make" =>
          \A j \in FieldValues(handler.indexBits),
             w \in FieldValues(handler.versionBits) :
                handleMake(handler, j, w) = esOp.ret => <<j, w>> = esOp.arg

\* index() has decoded a 32-bit Number handle whose sign bit is set.
C30_Witness ==
    /\ esOp.name = "index"
    /\ handler.indexBits + handler.versionBits = 32
    /\ esOp.arg[1] = 2 ^ (handler.indexBits - 1)
    /\ handleMake(handler, esOp.arg[1], esOp.arg[2]) < 0
    /\ esOp.ret = esOp.arg[1]

(***************************************************************************)
(* Registry with its own component options                                 *)
(***************************************************************************)
\* The component options a registry may be constructed with.
ComponentOptionsSet == [sizing : Configs, replace : BOOLEAN, resize : BOOLEAN]

\* add(entity, comp, CType, args, config) with the options object config:
\* the store is prepared with it and the flags are read from it
\* (Registry.js 203-209).
regAddWith(entity, comp, CType, args, options) ==
    regAddIn(components, entity, comp, CType, args, options.replace, options.sizing)

\* The replace and resize arguments add() passes to the store's add
\* (Registry.js 206-207).
addFlags(options) == [replace |-> options.replace, resize |-> options.resize]

\* The options of an add() called without config: the default value of the
\* parameter (Registry.js 196).
addDefaultOptions == DefaultComponentOptions

\* add(entity, comp, CType, args)
regAddNoConfig(entity, comp, CType, args) ==
    regAddWith(entity, comp, CType, args, addDefaultOptions)

RegAddNoConfig(entity, comp, CType, args) ==
    LET r == regAddNoConfig(entity, comp, CType, args)
    IN RegApply("add", entity, r,
                IF ~r.threw /\ r.ret # FAILED_OPERATION
                THEN lastAdded \cup {<<entity, comp>>} ELSE lastAdded)

\* new Registry({entityOptions, componentOptions}) (Registry.js 65-72)
InitConfigured ==
    /\ InitES /\ IdleSS
    /\ handler.indexBits = MaxIndexBits
    /\ cap = MaxCapacity
    /\ resizable
    /\ isTypedArray
    /\ components = <<>>
    /\ regOp = NoRegOp
    /\ regCalls = 0
    /\ lastAdded = {}
    /\ regConfig \in ComponentOptionsSet

NextConfigured ==
    \/ RegCreate
    \/ \E e \in RegEntities, c \in CompTypes, k \in Kinds, a \in CompArgs :
          RegAddNoConfig(e, c, k, a)

SpecConfigured == InitConfigured /\ [][NextConfigured]_vars

regLen(comp) ==
    IF comp \in DOMAIN components
    THEN Returned(csLen(components[comp]), components)
    ELSE Returned(SENTINEL, components)

\* reserve(comp, cap) (Registry.js 115-118).  The capacity of a store is not
\* part of the state: status is what the store's reserve answers.
regReserve(comp, newCap, status) ==
    IF comp \in DOMAIN components THEN Returned(status, components)
    ELSE Returned(SENTINEL, components)

ReserveCaps == {1, 8}

RegLen(comp) == RegApply("len", DEFAULT_ENTITY_VALUE, regLen(comp), lastAdded)

RegReserve(comp, newCap, status) ==
    RegApply("reserve", DEFAULT_ENTITY_VALUE, regReserve(comp, newCap, status), lastAdded)

NextSentinel ==
    \/ RegCreate
    \/ \E e \in RegEntities : Destroy(e)
    \/ \E e \in RegEntities, c \in CompTypes, k \in Kinds, a \in CompArgs :
          RegAdd(e, c, k, a, TRUE)
    \/ \E c \in CompTypes : RegLen(c)
    \/ \E c \in CompTypes, n \in ReserveCaps,
          st \in {SUCCESS_OPERATION, FAILED_OPERATION} : RegReserve(c, n, st)
    \/ \E e \in RegEntities, c \in CompTypes : RegRemoveIfExist(e, c)

SpecSentinel == InitReg /\ [][NextSentinel]_vars

\* The entity id e is stored in the store st.
Stores(st, e) == \E i \in 1..Len(st.ents) : st.ents[i] = e

\* The type c has no store, or its store does not hold e.
NothingToRemove(e, c) ==
    c \notin DOMAIN components \/ ~Stores(components[c], e)

\* len and reserve on a type with no store return SENTINEL and leave the
\* stores as they are.
LenAndReserveGiveSentinel ==
    \A c \in CompTypes :
        c \notin DOMAIN components =>
            /\ regLen(c) = Returned(SENTINEL, components)
            /\ \A n \in ReserveCaps, st \in {SUCCESS_OPERATION, FAILED_OPERATION} :
                  regReserve(c, n, st) = Returned(SENTINEL, components)

C33_CreateReturnsAFreshHandle ==
    [][(CreateFromFreeSlot \/ CreateAppend) =>
          \A r \in {esOp'.ret} :
              /\ ~isAlive(r)
              /\ r \notin live
              /\ \A e \in live : hIndex(e) # hIndex(r)]_vars

\* The entity id e is one of dense[0..length).
InDense(e) == \E i \in 0..(length - 1) : ArrGet(dense, i) = e

\* C34: contains(e) is true only if the exact id e (same index, same
\* version) is stored in dense[0..length), and then dense[index(e)] = e; an
\* id with the index of a stored entity but another version is reported
\* absent by contains and index, and remove does not remove it.
C34_ContainsMeansTheExactId ==
    \A e \in SSEntities :
        /\ contains(e) => (InDense(e) /\ ArrGet(dense, index(e)) = e)
        /\ \A f \in SSEntities :
              (InDense(f) /\ hIndex(f) = hIndex(e) /\ hVersion(f) # hVersion(e)) =>
                  /\ ~contains(e)
                  /\ index(e) = FAILED_OPERATION
                  /\ \A r \in {removeResult(e)} :
                        /\ r.ret = FAILED_OPERATION
                        /\ <<r.dense, r.sparse, r.length>> = <<dense, sparse, length>>

NextHold ==
    \/ RegCreate
    \/ \E e \in Handles : Destroy(e)
    \/ \E e \in Handles, c \in CompTypes, k \in Kinds :
          RegAdd(e, c, k, 1, TRUE)
    \/ \E e \in Handles, l \in CompLists : RegAddComps(e, l)
    \/ \E e \in Handles, c \in CompTypes : RegReplace(e, c, 2)
    \/ \E e \in Handles, c \in CompTypes : RegRemove(e, c)
    \/ \E e \in Handles, c \in CompTypes : RegRemoveIfExist(e, c)
    \/ \E e \in Handles : RegRemoveAll(e)

SpecHold == InitReg /\ [][NextHold]_vars

C37_DenseIsPackedAndDistinct ==
    /\ 0 <= length /\ length <= capacity
    /\ \A i, j \in 0..(length - 1) :
          i # j => hIndex(ArrGet(dense, i)) # hIndex(ArrGet(dense, j))
====
